---- MODULE Spec2Model ----
(***************************************************************************)
(* Model of BN_Sed_model: the build script BN_Sed_model.py (graph, CPDs,   *)
(* validation, pickling, example queries) and the Flask serving layer      *)
(* app.py (load_model, status, predict, health_check).                     *)
(*                                                                         *)
(* Probabilities are exact: a CPD table holds integer numerators over the  *)
(* CPD's denominator (0.6 is 6 over 10, 0.99 is 99 over 100), and a float  *)
(* produced by inference is a fraction in lowest terms.                    *)
(***************************************************************************)
EXTENDS Integers, Sequences, FiniteSets, TLC

\* ------------------------------------------------------------------------
\* Bounds
\* ------------------------------------------------------------------------
\* granularity of the posteriors handed to result extraction
PUnits == 12

\* ------------------------------------------------------------------------
\* Python values
\* ------------------------------------------------------------------------
RECURSIVE GCD(_, _)
GCD(a, b) == IF b = 0 THEN a ELSE GCD(b, a % b)

Str(x) == [ty |-> "str", s |-> x, num |-> 0, den |-> 1]

Float(n, d) ==
  LET g == GCD(n, d)
  IN  [ty |-> "float", s |-> "", num |-> n \div g, den |-> d \div g]

Absent == [ty |-> "absent", s |-> "", num |-> 0, den |-> 1]

\* a < b on two floats
FloatLess(a, b) == a.num * b.den < b.num * a.den

Range(f) == {f[i] : i \in DOMAIN f}

RECURSIVE SumFn(_, _)
SumFn(f, S) ==
  IF S = {} THEN 0
  ELSE LET x == CHOOSE y \in S : TRUE IN f[x] + SumFn(f, S \ {x})

\* ------------------------------------------------------------------------
\* BN_Sed_model.py: structure and CPDs
\* ------------------------------------------------------------------------
\* the structure with an edge the CPDs do not know of
model_structure_extra_edge ==
  << <<"Contaminant_Conc", "Bioavailability">>,
     <<"TOC", "Bioavailability">>,
     <<"Grain_Size", "Bioavailability">>,
     <<"Grain_Size", "Ecological_Effect">>,
     <<"Bioavailability", "Ecological_Effect">>,
     <<"Benthic_Community_Type", "Ecological_Effect">>,
     <<"Ecological_Effect", "Mortality_Growth">>,
     <<"Ecological_Effect", "Community_Richness">> >>

model_structure ==
  << <<"Contaminant_Conc", "Bioavailability">>,
     <<"TOC", "Bioavailability">>,
     <<"Grain_Size", "Bioavailability">>,
     <<"Bioavailability", "Ecological_Effect">>,
     <<"Benthic_Community_Type", "Ecological_Effect">>,
     <<"Ecological_Effect", "Mortality_Growth">>,
     <<"Ecological_Effect", "Community_Richness">> >>

cpd_contaminant ==
  [variable |-> "Contaminant_Conc", variable_card |-> 3, den |-> 10,
   values |-> << <<6>>, <<3>>, <<1>> >>,
   evidence |-> << >>, evidence_card |-> << >>,
   state_names |-> [Contaminant_Conc |-> <<"Low", "Medium", "High">>]]

cpd_toc ==
  [variable |-> "TOC", variable_card |-> 2, den |-> 10,
   values |-> << <<5>>, <<5>> >>,
   evidence |-> << >>, evidence_card |-> << >>,
   state_names |-> [TOC |-> <<"Low", "High">>]]

cpd_grain_size ==
  [variable |-> "Grain_Size", variable_card |-> 2, den |-> 10,
   values |-> << <<5>>, <<5>> >>,
   evidence |-> << >>, evidence_card |-> << >>,
   state_names |-> [Grain_Size |-> <<"Coarse", "Fine">>]]

cpd_benthic_community ==
  [variable |-> "Benthic_Community_Type", variable_card |-> 2, den |-> 10,
   values |-> << <<6>>, <<4>> >>,
   evidence |-> << >>, evidence_card |-> << >>,
   state_names |-> [Benthic_Community_Type |-> <<"Robust", "Sensitive">>]]

cpd_bioavailability ==
  [variable |-> "Bioavailability", variable_card |-> 2, den |-> 100,
   values |-> << <<99, 95, 90, 80, 80, 60, 50, 30, 40, 20, 10, 5>>,
                 <<1, 5, 10, 20, 20, 40, 50, 70, 60, 80, 90, 95>> >>,
   evidence |-> <<"Contaminant_Conc", "TOC", "Grain_Size">>,
   evidence_card |-> <<3, 2, 2>>,
   state_names |-> [Bioavailability |-> <<"Low", "High">>,
                    Contaminant_Conc |-> <<"Low", "Medium", "High">>,
                    TOC |-> <<"Low", "High">>,
                    Grain_Size |-> <<"Coarse", "Fine">>]]

\* the table with a first row that was not recomputed: column 1 sums to 1.01
cpd_eco_effect_unnormalised ==
  [variable |-> "Ecological_Effect", variable_card |-> 3, den |-> 100,
   values |-> << <<90, 70, 20, 5>>,
                 <<9, 25, 60, 35>>,
                 <<2, 5, 20, 60>> >>,
   evidence |-> <<"Bioavailability", "Benthic_Community_Type">>,
   evidence_card |-> <<2, 2>>,
   state_names |-> [Ecological_Effect |-> <<"None", "Moderate", "Severe">>,
                    Bioavailability |-> <<"Low", "High">>,
                    Benthic_Community_Type |-> <<"Robust", "Sensitive">>]]

\* the table with the Robust and Sensitive columns exchanged
cpd_eco_effect_swapped ==
  [variable |-> "Ecological_Effect", variable_card |-> 3, den |-> 100,
   values |-> << <<70, 90, 5, 20>>,
                 <<25, 9, 35, 60>>,
                 <<5, 1, 60, 20>> >>,
   evidence |-> <<"Bioavailability", "Benthic_Community_Type">>,
   evidence_card |-> <<2, 2>>,
   state_names |-> [Ecological_Effect |-> <<"None", "Moderate", "Severe">>,
                    Bioavailability |-> <<"Low", "High">>,
                    Benthic_Community_Type |-> <<"Robust", "Sensitive">>]]

cpd_eco_effect ==
  [variable |-> "Ecological_Effect", variable_card |-> 3, den |-> 100,
   values |-> << <<90, 70, 20, 5>>,
                 <<9, 25, 60, 35>>,
                 <<1, 5, 20, 60>> >>,
   evidence |-> <<"Bioavailability", "Benthic_Community_Type">>,
   evidence_card |-> <<2, 2>>,
   state_names |-> [Ecological_Effect |-> <<"None", "Moderate", "Severe">>,
                    Bioavailability |-> <<"Low", "High">>,
                    Benthic_Community_Type |-> <<"Robust", "Sensitive">>]]

cpd_mortality ==
  [variable |-> "Mortality_Growth", variable_card |-> 2, den |-> 100,
   values |-> << <<98, 40, 10>>,
                 <<2, 60, 90>> >>,
   evidence |-> <<"Ecological_Effect">>, evidence_card |-> <<3>>,
   state_names |-> [Mortality_Growth |-> <<"Normal", "Impaired">>,
                    Ecological_Effect |-> <<"None", "Moderate", "Severe">>]]

cpd_richness ==
  [variable |-> "Community_Richness", variable_card |-> 2, den |-> 100,
   values |-> << <<95, 30, 5>>,
                 <<5, 70, 95>> >>,
   evidence |-> <<"Ecological_Effect">>, evidence_card |-> <<3>>,
   state_names |-> [Community_Richness |-> <<"High", "Low">>,
                    Ecological_Effect |-> <<"None", "Moderate", "Severe">>]]

\* the argument list of model.add_cpds(...)
build_cpds ==
  << cpd_contaminant, cpd_toc, cpd_grain_size, cpd_benthic_community,
     cpd_bioavailability, cpd_eco_effect, cpd_mortality, cpd_richness >>

\* ------------------------------------------------------------------------
\* pgmpy objects as the two programs use them
\* ------------------------------------------------------------------------
\* Python None in the place of a model
None == [isnone |-> TRUE, edges |-> {}, cpds |-> << >>]

\* DiscreteBayesianNetwork(ebunch): a graph with no CPD attached yet
DiscreteBayesianNetwork(ebunch) ==
  [isnone |-> FALSE, edges |-> Range(ebunch), cpds |-> << >>]

Nodes(m) == {e[1] : e \in m.edges} \cup {e[2] : e \in m.edges}

Predecessors(m, n) == {e[1] : e \in {d \in m.edges : d[2] = n}}

\* nodes from which n is reachable along one or more edges
RECURSIVE AncestorsFrom(_, _, _)
AncestorsFrom(m, frontier, seen) ==
  LET new == UNION {Predecessors(m, n) : n \in frontier} \ seen
  IN  IF new = {} THEN seen ELSE AncestorsFrom(m, new, seen \cup new)

Ancestors(m, n) == AncestorsFrom(m, {n}, {})

IsDAG(m) == \A n \in Nodes(m) : n \notin Ancestors(m, n)

\* the scope of a CPD: its variable and its evidence
Scope(cpd) == {cpd.variable} \cup Range(cpd.evidence)

\* model.add_cpds(cpd) for one CPD: refuses a CPD whose scope is not within
\* the graph, replaces the CPD already held for the same variable, appends
\* otherwise
add_cpd_raises(m, cpd) == ~(Scope(cpd) \subseteq Nodes(m))

add_cpd(m, cpd) ==
  IF \E i \in DOMAIN m.cpds : m.cpds[i].variable = cpd.variable
  THEN [m EXCEPT !.cpds =
          [i \in DOMAIN m.cpds |->
             IF m.cpds[i].variable = cpd.variable THEN cpd ELSE m.cpds[i]]]
  ELSE [m EXCEPT !.cpds = Append(m.cpds, cpd)]

\* model.add_cpds(*cpds), CPDs taken left to right; stops at the first
\* CPD that is refused, keeping those already attached
RECURSIVE add_cpds(_, _)
add_cpds(m, cpds) ==
  IF cpds = << >> THEN [model |-> m, raised |-> FALSE]
  ELSE IF add_cpd_raises(m, Head(cpds)) THEN [model |-> m, raised |-> TRUE]
  ELSE add_cpds(add_cpd(m, Head(cpds)), Tail(cpds))

CpdsOf(m, n) == {i \in DOMAIN m.cpds : m.cpds[i].variable = n}

get_cpds(m, n) == m.cpds[CHOOSE i \in CpdsOf(m, n) : TRUE]

\* number of columns of a CPD's value table
RECURSIVE Prod(_)
Prod(s) == IF s = << >> THEN 1 ELSE Head(s) * Prod(Tail(s))

NumColumns(cpd) == Prod(cpd.evidence_card)

ColumnSum(cpd, col) ==
  SumFn([r \in 1..cpd.variable_card |-> cpd.values[r][col]],
        1..cpd.variable_card)

\* TabularCPD.is_valid_cpd: every column sums to 1 within atol = 0.01
is_valid_cpd(cpd) ==
  \A col \in 1..NumColumns(cpd) :
    LET d == ColumnSum(cpd, col) - cpd.den
    IN  (IF d < 0 THEN -d ELSE d) * 100 <= cpd.den

\* model.check_model(): TRUE when it returns True, FALSE when it raises
check_model(m) ==
  /\ IsDAG(m)
  /\ \A n \in Nodes(m) :
       /\ CpdsOf(m, n) # {}
       /\ LET cpd == get_cpds(m, n)
          IN  /\ Range(cpd.evidence) = Predecessors(m, n)
              /\ Len(cpd.values) = cpd.variable_card
              /\ \A r \in 1..cpd.variable_card :
                   Len(cpd.values[r]) = NumColumns(cpd)
              /\ is_valid_cpd(cpd)

\* ------------------------------------------------------------------------
\* Exact inference, as VariableElimination(model).query(variables, evidence)
\* answers it: the normalised sum-product over the variables that are
\* neither queried nor observed
\* ------------------------------------------------------------------------
IndexOf(seq, x) == CHOOSE i \in DOMAIN seq : seq[i] = x

StateNames(m, v) == get_cpds(m, v).state_names[v]

Card(m, v) == get_cpds(m, v).variable_card

\* an evidence value is usable when it is one of the variable's state names
ValidState(m, v, x) == x.ty = "str" /\ x.s \in Range(StateNames(m, v))

RECURSIVE ProdFn(_, _)
ProdFn(f, S) ==
  IF S = {} THEN 1
  ELSE LET x == CHOOSE y \in S : TRUE IN f[x] * ProdFn(f, S \ {x})

\* 0-based column of the value table for a full assignment of 1-based state
\* indices: the right-most evidence variable varies fastest
RECURSIVE ColumnIndex(_, _, _, _)
ColumnIndex(cpd, full, i, acc) ==
  IF i > Len(cpd.evidence) THEN acc
  ELSE ColumnIndex(cpd, full, i + 1,
                   acc * cpd.evidence_card[i] + (full[cpd.evidence[i]] - 1))

CpdValue(cpd, full) ==
  cpd.values[full[cpd.variable]][ColumnIndex(cpd, full, 1, 0) + 1]

\* the query variable, the observed variables and all their ancestors; the
\* other nodes are barren and sum out to 1
Relevant(m, q, keys) ==
  LET t == {q} \cup keys
  IN  t \cup UNION {Ancestors(m, n) : n \in t}

MaxCard(m) ==
  CHOOSE c \in {Card(m, v) : v \in Nodes(m)} :
    \A v \in Nodes(m) : Card(m, v) <= c

Assignments(m, hidden) ==
  {a \in [hidden -> 1..MaxCard(m)] : \A v \in hidden : a[v] <= Card(m, v)}

\* unnormalised weight of state s of q: the CPDs reduced to constants by the
\* evidence are common factors of every state and are left out
Unnormalised(m, q, evidence, s) ==
  LET keys == DOMAIN evidence
      rel == Relevant(m, q, keys)
      hidden == rel \ ({q} \cup keys)
      factors == {n \in rel : ~(Scope(get_cpds(m, n)) \subseteq keys)}
      full(a) == [v \in rel |->
                    IF v = q THEN s
                    ELSE IF v \in keys
                         THEN IndexOf(StateNames(m, v), evidence[v].s)
                         ELSE a[v]]
      A == Assignments(m, hidden)
  IN  SumFn([a \in A |->
               ProdFn([n \in factors |-> CpdValue(get_cpds(m, n), full(a))],
                      factors)], A)

Raised(e) ==
  [raised |-> TRUE, exc |-> e, variables |-> << >>, state_names |-> << >>,
   values |-> << >>]

\* infer.query(variables=[q], evidence=evidence)
query(m, variables, evidence) ==
  LET q == variables[1]
      keys == DOMAIN evidence
  IN  IF variables = << >> THEN Raised("EmptyQuery")
      ELSE IF q \in keys \/ q \notin Nodes(m) THEN Raised("InvalidEvidence")
      ELSE IF \E k \in keys : k \notin Nodes(m) THEN Raised("InvalidEvidence")
      ELSE IF \E k \in keys : ~ValidState(m, k, evidence[k])
           THEN Raised("InvalidEvidence")
      ELSE LET U == [s \in 1..Card(m, q) |-> Unnormalised(m, q, evidence, s)]
               total == SumFn(U, DOMAIN U)
           IN  IF total = 0 THEN Raised("ConflictingEvidence")
               ELSE [raised |-> FALSE, exc |-> "", variables |-> variables,
                     state_names |-> StateNames(m, q),
                     values |-> [s \in 1..Card(m, q) |-> Float(U[s], total)]]

\* the value a posterior gives to a state name
ValueOf(result, label) == result.values[IndexOf(result.state_names, label)]

NoResult == Raised("")

\* ------------------------------------------------------------------------
\* State
\* ------------------------------------------------------------------------
VARIABLES
  build_pc,        \* position of the build script BN_Sed_model.py
  bn_model,        \* the build script's model object
  is_valid,        \* the build script's is_valid
  pkl,             \* the file bn_sed_model.pkl the build script writes
  risk_robust,     \* Example 3, scenario A
  risk_sensitive,  \* Example 3, scenario B
  query_result_1,  \* Example 1
  query_result_2,  \* Example 2
  artifact,        \* the file load_model opens
  app_pc,          \* "init" before load_model has run, "serving" after
  model,           \* app.py's global model
  load_ok,         \* load_model reached "Model loaded successfully!"
  response,        \* the last response a handler returned
  evidence,        \* the evidence of the last predict request
  queried,         \* the last predict request handed its evidence to query
  failure,         \* the failure class of the last request, "" if none
  result,          \* a posterior handed to result extraction
  extracted        \* what result extraction made of it

build_vars ==
  <<build_pc, bn_model, is_valid, pkl, risk_robust, risk_sensitive,
    query_result_1, query_result_2>>

app_vars == <<artifact, app_pc, model, load_ok>>

request_vars == <<response, evidence, queried, failure>>

extract_vars == <<result, extracted>>

vars == <<build_vars, app_vars, request_vars, extract_vars>>

\* ------------------------------------------------------------------------
\* Files
\* ------------------------------------------------------------------------
NoFile == [kind |-> "missing", keys |-> {}, obj |-> None, cpds |-> << >>]

CorruptFile == [kind |-> "corrupt", keys |-> {}, obj |-> None, cpds |-> << >>]

\* pickle.dump(m, f): the file holds the model object itself
PickleOf(m) == [kind |-> "object", keys |-> {}, obj |-> m, cpds |-> << >>]

\* a CPD over a variable the graph does not have
foreign_cpd ==
  [variable |-> "Contaminant_Level", variable_card |-> 3, den |-> 10,
   values |-> << <<6>>, <<3>>, <<1>> >>,
   evidence |-> << >>, evidence_card |-> << >>,
   state_names |-> [Contaminant_Level |-> <<"Low", "Medium", "High">>]]

\* the dict-wrapped form load_model reads: entries 'model' (the bare graph)
\* and 'cpds' (the CPDs to re-attach), either of which may be absent, and
\* whose k-th CPD (k > 0) may be one the graph refuses
DictFile(keys, k) ==
  [kind |-> "dict", keys |-> keys,
   obj |-> IF "model" \in keys THEN DiscreteBayesianNetwork(model_structure)
           ELSE None,
   cpds |-> IF "cpds" \in keys
            THEN [i \in DOMAIN build_cpds |->
                    IF i = k THEN foreign_cpd ELSE build_cpds[i]]
            ELSE << >>]

DictFiles ==
  {DictFile(keys, k) : keys \in SUBSET {"model", "cpds"},
                       k \in 0..Len(build_cpds)}

\* ------------------------------------------------------------------------
\* Responses
\* ------------------------------------------------------------------------
NoResponse ==
  [handler |-> "", code |-> 0, status |-> "", model_loaded |-> FALSE,
   prediction |-> Absent, probability |-> Absent]

NoEvidence ==
  [Contaminant_Level |-> Absent, TOC_Content |-> Absent, Grain_Size |-> Absent]

Init ==
  /\ build_pc = "structure"
  /\ bn_model = None
  /\ is_valid = FALSE
  /\ pkl = NoFile
  /\ risk_robust = NoResult
  /\ risk_sensitive = NoResult
  /\ query_result_1 = NoResult
  /\ query_result_2 = NoResult
  /\ artifact = NoFile
  /\ app_pc = "init"
  /\ model = None
  /\ load_ok = FALSE
  /\ response = NoResponse
  /\ evidence = NoEvidence
  /\ queried = FALSE
  /\ failure = ""
  /\ result = NoResult
  /\ extracted = NoResponse

\* ------------------------------------------------------------------------
\* BN_Sed_model.py, top to bottom
\* ------------------------------------------------------------------------
\* model = DiscreteBayesianNetwork(model_structure)
BuildStructure ==
  /\ build_pc = "structure"
  /\ bn_model' = DiscreteBayesianNetwork(model_structure)
  /\ build_pc' = "add_cpds"
  /\ UNCHANGED <<is_valid, pkl, risk_robust, risk_sensitive, query_result_1,
                 query_result_2, app_vars, request_vars, extract_vars>>

\* model.add_cpds(cpd_contaminant, ..., cpd_richness)
AddCpds ==
  /\ build_pc = "add_cpds"
  /\ LET r == add_cpds(bn_model, build_cpds)
     IN  /\ bn_model' = r.model
         /\ build_pc' = IF r.raised THEN "failed" ELSE "check"
  /\ UNCHANGED <<is_valid, pkl, risk_robust, risk_sensitive, query_result_1,
                 query_result_2, app_vars, request_vars, extract_vars>>

\* is_valid = model.check_model(); the script stops when check_model raises
\* or returns a false value
CheckModel ==
  /\ build_pc = "check"
  /\ is_valid' = check_model(bn_model)
  /\ build_pc' = IF check_model(bn_model) THEN "save" ELSE "failed"
  /\ UNCHANGED <<bn_model, pkl, risk_robust, risk_sensitive, query_result_1,
                 query_result_2, app_vars, request_vars, extract_vars>>

\* with open('bn_sed_model.pkl', 'wb') as f: pickle.dump(model, f)
SaveModel ==
  /\ build_pc = "save"
  /\ pkl' = PickleOf(bn_model)
  /\ build_pc' = "infer"
  /\ UNCHANGED <<bn_model, is_valid, risk_robust, risk_sensitive,
                 query_result_1, query_result_2, app_vars, request_vars,
                 extract_vars>>

HighRisk(community) ==
  [Contaminant_Conc |-> Str("High"), TOC |-> Str("Low"),
   Benthic_Community_Type |-> Str(community)]

\* Examples 1 to 3
RunInference ==
  /\ build_pc = "infer"
  /\ query_result_1' = query(bn_model, <<"Ecological_Effect">>,
                             HighRisk("Sensitive"))
  /\ query_result_2' = query(bn_model, <<"Contaminant_Conc">>,
                             [Ecological_Effect |-> Str("None")])
  /\ risk_robust' = query(bn_model, <<"Ecological_Effect">>,
                          HighRisk("Robust"))
  /\ risk_sensitive' = query(bn_model, <<"Ecological_Effect">>,
                             HighRisk("Sensitive"))
  /\ build_pc' = "done"
  /\ UNCHANGED <<bn_model, is_valid, pkl, app_vars, request_vars,
                 extract_vars>>

\* ------------------------------------------------------------------------
\* app.py
\* ------------------------------------------------------------------------
\* a file arrives at the path load_model opens, before the application
\* starts: the build script's pickle, a dict-wrapped artifact or garbage
Deploy ==
  /\ app_pc = "init"
  /\ artifact = NoFile
  /\ \E f \in DictFiles \cup {CorruptFile} \cup {pkl} :
       /\ f # NoFile
       /\ artifact' = f
  /\ UNCHANGED <<build_vars, app_pc, model, load_ok, request_vars,
                 extract_vars>>

\* model_data[key] on what dill.load returned: a dict entry, or, on a graph
\* object, the adjacency of the node of that name; KeyError otherwise
Subscriptable(f, key) ==
  IF f.kind = "dict" THEN key \in f.keys ELSE key \in Nodes(f.obj)

\* the global model and the success flag load_model leaves behind.  The
\* global is assigned before the CPDs are re-attached one by one, and every
\* exception is caught and printed.
load_model_outcome(f) ==
  IF f.kind \in {"missing", "corrupt"} THEN [model |-> None, ok |-> FALSE]
  ELSE IF ~Subscriptable(f, "model") THEN [model |-> None, ok |-> FALSE]
  ELSE LET m == IF f.kind = "dict" THEN f.obj
                ELSE [isnone |-> FALSE, edges |-> {}, cpds |-> << >>]
       IN  IF ~Subscriptable(f, "cpds") \/ f.kind # "dict"
           THEN [model |-> m, ok |-> FALSE]
           ELSE LET r == add_cpds(m, f.cpds)
                IN  [model |-> r.model, ok |-> ~r.raised]

\* load_model(), called once when the module is imported
load_model ==
  /\ app_pc = "init"
  /\ model' = load_model_outcome(artifact).model
  /\ load_ok' = load_model_outcome(artifact).ok
  /\ app_pc' = "serving"
  /\ UNCHANGED <<build_vars, artifact, request_vars, extract_vars>>

\* GET /
status ==
  /\ app_pc = "serving"
  /\ response' = [NoResponse EXCEPT !.handler = "status", !.code = 200,
                                    !.status = "API is running",
                                    !.model_loaded = ~model.isnone]
  /\ evidence' = NoEvidence
  /\ queried' = FALSE
  /\ failure' = ""
  /\ UNCHANGED <<build_vars, app_vars, extract_vars>>

\* GET /health
health_check ==
  /\ app_pc = "serving"
  /\ response' = [NoResponse EXCEPT !.handler = "health", !.code = 200,
                                    !.status = "healthy",
                                    !.model_loaded = ~model.isnone]
  /\ evidence' = NoEvidence
  /\ queried' = FALSE
  /\ failure' = ""
  /\ UNCHANGED <<build_vars, app_vars, extract_vars>>

\* data.get(key, default)
get(v, default) == IF v.ty = "absent" THEN default ELSE v

\* result.get_value(Ecological_Effect=x): x is looked up among the state
\* names, and failing that is used as an array index, which only an integer
\* in range can be
get_value(res, x) ==
  IF x.ty = "str" /\ x.s \in Range(res.state_names)
  THEN [raised |-> FALSE, value |-> ValueOf(res, x.s)]
  ELSE IF x.ty = "int" /\ x.num \in 0..(Len(res.values) - 1)
       THEN [raised |-> FALSE, value |-> res.values[x.num + 1]]
       ELSE [raised |-> TRUE, value |-> Absent]

\* prediction = max(result.values, key=lambda x: result.get_value(...))
\* probability = result.get_value(Ecological_Effect=prediction)
\* max keeps the first of several elements with the largest key
extract_result(res) ==
  LET xs == res.values
      key == [i \in DOMAIN xs |-> get_value(res, xs[i])]
  IN  IF xs = << >> \/ \E i \in DOMAIN xs : key[i].raised
      THEN [raised |-> TRUE, prediction |-> Absent, probability |-> Absent]
      ELSE LET best == CHOOSE i \in DOMAIN xs :
                         /\ \A j \in DOMAIN xs :
                              ~FloatLess(key[i].value, key[j].value)
                         /\ \A j \in 1..(i - 1) :
                              FloatLess(key[j].value, key[i].value)
               p == get_value(res, xs[best])
           IN  [raised |-> p.raised, prediction |-> xs[best],
                probability |-> p.value]

ErrorResponse(code) ==
  [NoResponse EXCEPT !.handler = "predict", !.code = code, !.status = "error"]

\* the jsonify(...) of a successful extraction, or the except branch
ExtractionResponse(res) ==
  LET x == extract_result(res)
  IN  IF x.raised THEN ErrorResponse(400)
      ELSE [NoResponse EXCEPT !.handler = "predict", !.code = 200,
                              !.status = "success",
                              !.prediction = x.prediction,
                              !.probability = x.probability]

\* the evidence dict predict builds from the request body
EvidenceOf(data) ==
  [Contaminant_Level |-> get(data.contaminant, Str("Low")),
   TOC_Content |-> get(data.toc, Float(1, 1)),
   Grain_Size |-> get(data.grain_size, Str("Silt"))]

\* POST /predict with JSON object data; oom: the inference runs out of
\* memory (MemoryError) once query has been called
predict_outcome(m, data, oom) ==
  IF m.isnone
  THEN [response |-> ErrorResponse(500), evidence |-> NoEvidence,
        queried |-> FALSE, failure |-> "ModelUnavailable"]
  ELSE IF ~check_model(m)
  THEN \* VariableElimination(model) refuses a model that fails check_model
       [response |-> ErrorResponse(400), evidence |-> EvidenceOf(data),
        queried |-> FALSE, failure |-> "InvalidModel"]
  ELSE IF oom
  THEN [response |-> ErrorResponse(400), evidence |-> EvidenceOf(data),
        queried |-> TRUE, failure |-> "ResourceExceeded"]
  ELSE LET res == query(m, <<"Ecological_Effect">>, EvidenceOf(data))
       IN  IF res.raised
           THEN [response |-> ErrorResponse(400),
                 evidence |-> EvidenceOf(data), queried |-> TRUE,
                 failure |-> res.exc]
           ELSE [response |-> ExtractionResponse(res),
                 evidence |-> EvidenceOf(data), queried |-> TRUE,
                 failure |-> IF extract_result(res).raised
                             THEN "ExtractionError" ELSE ""]

\* a handler that drops the global model when the request fails
predict_resetting(data, oom) ==
  /\ app_pc = "serving"
  /\ LET o == predict_outcome(model, data, oom)
     IN  /\ response' = o.response
         /\ evidence' = o.evidence
         /\ queried' = o.queried
         /\ failure' = o.failure
         /\ model' = IF o.failure = "" THEN model ELSE None
  /\ UNCHANGED <<build_vars, artifact, app_pc, load_ok, extract_vars>>

predict(data, oom) ==
  /\ app_pc = "serving"
  /\ LET o == predict_outcome(model, data, oom)
     IN  /\ response' = o.response
         /\ evidence' = o.evidence
         /\ queried' = o.queried
         /\ failure' = o.failure
  /\ UNCHANGED <<build_vars, app_vars, extract_vars>>

\* request bodies: each field absent, a label of the model, or another value
Bodies ==
  [contaminant : {Absent, Str("Low"), Str("High")},
   toc : {Absent, Str("Low"), Float(5, 2)},
   grain_size : {Absent, Str("Fine"), Str("Silt")}]

Next ==
  \/ BuildStructure
  \/ AddCpds
  \/ CheckModel
  \/ SaveModel
  \/ RunInference
  \/ Deploy
  \/ load_model
  \/ status
  \/ health_check
  \/ \E data \in Bodies, oom \in BOOLEAN : predict(data, oom)

Spec == Init /\ [][Next]_vars

\* ------------------------------------------------------------------------
\* Result extraction on its own: any posterior over Ecological_Effect
\* ------------------------------------------------------------------------
Posteriors ==
  UNION {
    {[raised |-> FALSE, exc |-> "", variables |-> <<"Ecological_Effect">>,
      state_names |-> cpd_eco_effect.state_names.Ecological_Effect,
      values |-> <<Float(a, PUnits), Float(b, PUnits),
                   Float(PUnits - a - b, PUnits)>>] :
       b \in 0..(PUnits - a)} : a \in 0..PUnits}

InitExtract ==
  /\ build_pc = "structure"
  /\ bn_model = None
  /\ is_valid = FALSE
  /\ pkl = NoFile
  /\ risk_robust = NoResult
  /\ risk_sensitive = NoResult
  /\ query_result_1 = NoResult
  /\ query_result_2 = NoResult
  /\ artifact = NoFile
  /\ app_pc = "init"
  /\ model = None
  /\ load_ok = FALSE
  /\ response = NoResponse
  /\ evidence = NoEvidence
  /\ queried = FALSE
  /\ failure = ""
  /\ result \in Posteriors
  /\ extracted = NoResponse

Extract ==
  /\ extracted = NoResponse
  /\ ~result.raised
  /\ extracted' = ExtractionResponse(result)
  /\ UNCHANGED <<build_vars, app_vars, request_vars, result>>

NextExtract == Extract

SpecExtract == InitExtract /\ [][NextExtract]_vars

\* ------------------------------------------------------------------------
\* Properties
\* ------------------------------------------------------------------------
Built == build_pc \notin {"structure", "add_cpds"}

\* C1: whenever predict hands evidence to the inference query, every key of
\* the evidence names a node of the loaded model and every value is one of
\* that variable's state labels.
EvidenceNamesModelVariables ==
  queried =>
    \A k \in DOMAIN evidence :
      /\ k \in Nodes(model)
      /\ CpdsOf(model, k) # {}
      /\ ValidState(model, k, evidence[k])

\* C2: once load_model has returned, the global model is None or carries
\* every CPD of the artifact after a load that ran to its end, and status
\* and health report model_loaded only after such a load.
LoadIsAllOrNothing ==
  app_pc = "serving" =>
    /\ \/ model.isnone
       \/ /\ load_ok
          /\ "cpds" \in artifact.keys
          /\ Range(artifact.cpds) \subseteq Range(model.cpds)
    /\ response.model_loaded => load_ok

\* C3: predict answers ModelUnavailable and ResourceExceeded with a 5xx
\* code and InvalidEvidence, EmptyQuery and ConflictingEvidence with a 4xx
\* code.
FailureFamilies ==
  response.handler = "predict" =>
    /\ failure \in {"ModelUnavailable", "ResourceExceeded"} =>
         response.code \in 500..599
    /\ failure \in {"InvalidEvidence", "EmptyQuery", "ConflictingEvidence"} =>
         response.code \in 400..499

\* C4: result extraction reports a state label of Ecological_Effect whose
\* posterior probability is maximal, the first such label in declared
\* order, together with that probability.
ArgmaxStateReported ==
  extracted # NoResponse =>
    /\ extracted.status = "success"
    /\ extracted.prediction.ty = "str"
    /\ extracted.prediction.s \in Range(result.state_names)
    /\ LET best == IndexOf(result.state_names, extracted.prediction.s)
       IN  /\ extracted.probability = result.values[best]
           /\ \A j \in DOMAIN result.values :
                ~FloatLess(result.values[best], result.values[j])
           /\ \A j \in 1..(best - 1) :
                FloatLess(result.values[j], result.values[best])

\* C5: when the file load_model opens is the pickle the build script wrote,
\* load_model leaves the saved model, with its eight CPDs, in the global.
SaveLoadRoundTrip ==
  (app_pc = "serving" /\ pkl # NoFile /\ artifact = pkl) =>
    /\ ~model.isnone
    /\ model = pkl.obj
    /\ Len(model.cpds) = Len(build_cpds)

\* C6: every column of every CPD attached to the built model sums to
\* exactly 1, and the eight CPDs of the reference model are the ones
\* attached.
ColumnsSumToOne ==
  Built =>
    /\ {bn_model.cpds[i].variable : i \in DOMAIN bn_model.cpds} =
         {"Contaminant_Conc", "TOC", "Grain_Size", "Benthic_Community_Type",
          "Bioavailability", "Ecological_Effect", "Mortality_Growth",
          "Community_Richness"}
    /\ \A i \in DOMAIN bn_model.cpds :
         \A col \in 1..NumColumns(bn_model.cpds[i]) :
           ColumnSum(bn_model.cpds[i], col) = bn_model.cpds[i].den

ColumnsSumToOneWitness ==
  /\ build_pc = "save"
  /\ is_valid
  /\ Len(bn_model.cpds) = 8
  /\ NumColumns(get_cpds(bn_model, "Bioavailability")) = 12

\* C7: in the built model every node has exactly one CPD, that CPD's
\* evidence is exactly the node's set of direct predecessors, and the graph
\* has no directed cycle.
OneCpdPerNodeMatchingParents ==
  Built =>
    /\ IsDAG(bn_model)
    /\ \A n \in Nodes(bn_model) :
         /\ Cardinality(CpdsOf(bn_model, n)) = 1
         /\ Range(get_cpds(bn_model, n).evidence) = Predecessors(bn_model, n)
         /\ Len(get_cpds(bn_model, n).evidence) =
              Cardinality(Predecessors(bn_model, n))

OneCpdPerNodeWitness ==
  /\ build_pc = "done"
  /\ Cardinality(Nodes(bn_model)) = 8
  /\ Predecessors(bn_model, "Bioavailability") =
       {"Contaminant_Conc", "TOC", "Grain_Size"}
  /\ Predecessors(bn_model, "Contaminant_Conc") = {}

\* C8: with Contaminant_Conc = High and TOC = Low observed, the posterior
\* probability of Ecological_Effect = Severe is strictly greater for a
\* Sensitive community than for a Robust one.
ReceptorSensitivityMonotone ==
  build_pc = "done" =>
    /\ ~risk_robust.raised
    /\ ~risk_sensitive.raised
    /\ FloatLess(ValueOf(risk_robust, "Severe"),
                 ValueOf(risk_sensitive, "Severe"))

ReceptorSensitivityWitness ==
  /\ build_pc = "done"
  /\ ValueOf(risk_sensitive, "Severe") = Float(435, 1000)
  /\ ValueOf(risk_robust, "Severe") = Float(143, 1000)

\* C9: once load_model has completed, no step changes the global model,
\* and status and health report whether it is loaded.
ModelUnchangedByRequests ==
  [][app_pc = "serving" =>
       /\ model' = model
       /\ response'.handler \in {"status", "health"} =>
            response'.model_loaded = ~model.isnone]_vars

ModelUnchangedWitness ==
  /\ app_pc = "serving"
  /\ load_ok
  /\ ~model.isnone
  /\ response.handler = "predict"
  /\ response.code = 400

\* C10: over the 12 columns of the Bioavailability CPD, P(High) is largest
\* at (Contaminant_Conc = High, TOC = Low, Grain_Size = Coarse) and
\* smallest at (Contaminant_Conc = Low, TOC = High, Grain_Size = Fine).
BioavailabilityExtremes ==
  Built =>
    LET cpd == get_cpds(bn_model, "Bioavailability")
        at(c, t, g) ==
          [Bioavailability |-> IndexOf(cpd.state_names.Bioavailability, "High"),
           Contaminant_Conc |-> IndexOf(cpd.state_names.Contaminant_Conc, c),
           TOC |-> IndexOf(cpd.state_names.TOC, t),
           Grain_Size |-> IndexOf(cpd.state_names.Grain_Size, g)]
        high == IndexOf(cpd.state_names.Bioavailability, "High")
    IN  \A col \in 1..NumColumns(cpd) :
          /\ cpd.values[high][col] <= CpdValue(cpd, at("High", "Low", "Coarse"))
          /\ cpd.values[high][col] >= CpdValue(cpd, at("Low", "High", "Fine"))

====
